---- MODULE Spec2Model ----
(***************************************************************************)
(* Model of ofborg's LogMessageCollector                                   *)
(* (ofborg/src/tasks/log_message_collector.rs): the path resolver, the     *)
(* bounded LRU cache of open log files, the metadata (sidecar) writer and  *)
(* the consumer that dispatches Start / Msg (chunk) / Finish jobs.         *)
(*                                                                         *)
(* Strings are sequences of one-character strings.  A PathBuf is the raw   *)
(* string it holds; Components parses it the way std::path does on unix.   *)
(* A file is identified by the component list of its path.  File contents  *)
(* are sequences of tokens: a chunk text, the line terminator "\n", or the *)
(* tokens of a JSON document.                                              *)
(***************************************************************************)
EXTENDS Integers, Sequences, FiniteSets, TLC

(***************************************************************************)
(* Bounds of the model.                                                    *)
(***************************************************************************)
MaxLen == 3       \* longest routing_key / attempt_id enumerated by PathSpec
MaxOpenBound == 2 \* largest max_open a collector is constructed with
MaxLine == 3      \* largest line_number carried by a chunk
MaxOps == 3       \* calls made in one behaviour of Spec
CacheOps == 5     \* calls made in one behaviour of CacheSpec
MaxPad == 1       \* blank lines seen on disk from a wrapped line index
WorkerOps == 6    \* calls made in one behaviour of WorkerSpec

Sep == "/"
Dot == "."
Alphabet == {"a", Dot, Sep}

Str(n) == UNION {[1..m -> Alphabet] : m \in 0..n}

(***************************************************************************)
(* std::path on unix, as used by the collector.                            *)
(***************************************************************************)
RootDir == <<Sep>>
CurDir == <<Dot>>
ParentDir == <<Dot, Dot>>

\* The pieces of s between separators ("a//b" has the pieces a, "", b).
RECURSIVE Split(_)
Split(s) ==
  IF s = <<>> THEN << <<>> >>
  ELSE LET rest == Split(Tail(s))
       IN IF Head(s) = Sep THEN << <<>> >> \o rest
          ELSE << <<Head(s)>> \o Head(rest) >> \o Tail(rest)

has_root(s) == s # <<>> /\ Head(s) = Sep

include_cur_dir(s) ==
  /\ ~has_root(s)
  /\ Len(s) >= 1
  /\ s[1] = Dot
  /\ (Len(s) = 1 \/ s[2] = Sep)

KeptPiece(p) == p # <<>> /\ p # CurDir

\* Path::components: a leading separator is RootDir, a leading "." is
\* CurDir, ".." is ParentDir, empty pieces and every other "." are dropped,
\* anything else is Normal (represented by the name itself).
Components(s) ==
  (IF has_root(s) THEN <<RootDir>>
   ELSE IF include_cur_dir(s) THEN <<CurDir>>
   ELSE <<>>) \o SelectSeq(Split(s), KeptPiece)

IsNormal(c) == c # RootDir /\ c # CurDir /\ c # ParentDir

push_no_separator(self, path) == IF has_root(path) THEN path ELSE self \o path

\* PathBuf::push
push(self, path) ==
  IF has_root(path) THEN path
  ELSE IF self # <<>> /\ self[Len(self)] # Sep THEN self \o <<Sep>> \o path
  ELSE self \o path

IsPrefixSeq(p, s) == Len(p) <= Len(s) /\ SubSeq(s, 1, Len(p)) = p

\* Path::starts_with compares whole components.
starts_with(path, base) == IsPrefixSeq(Components(base), Components(path))

RECURSIVE Join(_)
Join(comps) ==
  IF comps = <<>> THEN <<>>
  ELSE IF Len(comps) = 1 THEN comps[1]
  ELSE IF comps[1] = RootDir THEN <<Sep>> \o Join(Tail(comps))
  ELSE comps[1] \o <<Sep>> \o Join(Tail(comps))

Ok(path) == [ok |-> TRUE, path |-> path, err |-> ""]
Err(msg) == [ok |-> FALSE, path |-> <<>>, err |-> msg]

validate_path_segment_always_ok(segment) == Ok(<<>>)

validate_path_segment_no_count(segment) ==
  LET components == Components(segment)
  IN IF \A i \in 1..Len(components) : IsNormal(components[i]) THEN Ok(<<>>)
     ELSE Err("Path contained invalid components")

validate_path_segment(segment) ==
  LET components == Components(segment)
  IN IF Len(components) = 0 THEN Err("Segment has no components")
     ELSE IF \A i \in 1..Len(components) : IsNormal(components[i]) THEN Ok(<<>>)
     ELSE Err("Path contained invalid components")

path_for_log(root, from) ==
  LET v1 == validate_path_segment(from.routing_key)
      location1 == push(root, from.routing_key)
      v2 == validate_path_segment(from.attempt_id)
      location2 == push(location1, from.attempt_id)
  IN IF ~v1.ok THEN v1
     ELSE IF ~v2.ok THEN v2
     ELSE IF starts_with(location2, root) THEN Ok(location2)
     ELSE Err("Calculating the log location resulted in an invalid path")

\* Path::file_name: the last component when it is a normal one.
HasFileName(path) ==
  LET c == Components(path) IN c # <<>> /\ IsNormal(c[Len(c)])

file_name(path) == LET c == Components(path) IN c[Len(c)]

\* Index of the last "." of name, 0 when it has none.
LastDot(name) ==
  LET dots == {i \in 1..Len(name) : name[i] = Dot}
  IN IF dots = {} THEN 0 ELSE CHOOSE i \in dots : \A j \in dots : j <= i

\* Path::file_stem: the name up to its last ".", the whole name when it has
\* no "." or only a leading one.
file_stem(name) ==
  IF name = ParentDir THEN name
  ELSE IF LastDot(name) <= 1 THEN name
  ELSE SubSeq(name, 1, LastDot(name) - 1)

MetadataExtension ==
  <<"m", "e", "t", "a", "d", "a", "t", "a", ".", "j", "s", "o", "n">>

\* Path::parent as a PathBuf (redundant separators and "." are not kept).
Parent(path) == LET c == Components(path) IN Join(SubSeq(c, 1, Len(c) - 1))

\* PathBuf::set_extension: the file name becomes its stem, ".", extension.
set_extension(path, extension) ==
  IF ~HasFileName(path) THEN path
  ELSE push(Parent(path),
            file_stem(file_name(path))
              \o (IF extension = <<>> THEN <<>> ELSE <<Dot>> \o extension))

path_for_metadata(root, from) ==
  LET path == path_for_log(root, from)
  IN IF ~path.ok THEN path
     ELSE Ok(set_extension(path.path, MetadataExtension))

(***************************************************************************)
(* The collector's state.                                                  *)
(*   log_root, max_open  the arguments of LogMessageCollector::new         *)
(*   handles   the LruCache<LogFrom, LineWriter>, least recently used      *)
(*             first; an entry is [from, writer, hid, used], hid and used  *)
(*             being history: which LineWriter it is, and the clock of     *)
(*             the last handle_for that returned it                        *)
(*   files     the regular files on disk: file id -> content               *)
(*   dirs      the directories on disk                                     *)
(*   crashed   the worker panicked (unwrap / expect / arithmetic overflow) *)
(*   last      what the last call was and what it returned                 *)
(*   clock     calls made so far; limit: calls made in one behaviour       *)
(*   nopen     history: how many LineWriters were created so far           *)
(*   wlog      history: per file, the writes made to it since it exists    *)
(*   peak      history: the most files the last call held open at once     *)
(***************************************************************************)
VARIABLES log_root, max_open, handles, files, dirs, crashed, last, clock,
          limit, nopen, wlog, peak

vars == <<log_root, max_open, handles, files, dirs, crashed, last, clock,
          limit, nopen, wlog, peak>>

Max(a, b) == IF a >= b THEN a ELSE b

LogFrom(routing_key, attempt_id) ==
  [routing_key |-> routing_key, attempt_id |-> attempt_id]

\* Every key PathSpec resolves.
AllKeys == {LogFrom(r, a) : r \in Str(MaxLen), a \in Str(MaxLen)}

Plain == <<"a">>
Dotted == <<"a", Dot, "a">>
Nested == <<"a", Sep, "a">>
Upward == <<Dot, Dot>>

\* The keys the messages of Spec carry: a plain one, one with a dotted
\* attempt_id, and two with a multi-component segment that name one log file
\* below the plain key's. PathSpec and CacheSpec carry the rejected keys.
DynKeys ==
  {LogFrom(Plain, Plain), LogFrom(Plain, Dotted), LogFrom(Plain, Nested),
   LogFrom(Nested, Plain)}

\* The keys of CacheSpec: three that can be open together and a bad one.
CacheKeys ==
  {LogFrom(Plain, Plain), LogFrom(Plain, Dotted), LogFrom(Dotted, Plain),
   LogFrom(Upward, Plain)}

LogRoot == <<Sep, "r">>
PathRoots == {LogRoot, <<"r">>}

(***************************************************************************)
(* The filesystem calls of open_file.                                      *)
(***************************************************************************)
MinOf(S) == CHOOSE x \in S : \A y \in S : x <= y

\* fs::create_dir_all: creates the missing directories of dir from the top;
\* fails at the first component that is a regular file.
create_dir_all(fsdirs, fsfiles, dir, fault) ==
  LET c == Components(dir)
      blocked == {i \in 1..Len(c) : SubSeq(c, 1, i) \in DOMAIN fsfiles}
      stop == IF blocked = {} THEN Len(c) + 1 ELSE MinOf(blocked)
  IN IF fault = "mkdir" THEN [ok |-> FALSE, dirs |-> fsdirs]
     ELSE [ok |-> blocked = {},
           dirs |-> fsdirs \cup {SubSeq(c, 1, i) : i \in 1..(stop - 1)}]

open_file_truncating(fsdirs, fsfiles, path, fault) ==
  LET mk == create_dir_all(fsdirs, fsfiles, Parent(path), fault)
      id == Components(path)
  IN IF ~mk.ok
     THEN [panicked |-> TRUE, ok |-> FALSE, dirs |-> mk.dirs,
           files |-> fsfiles, file |-> <<>>]
     ELSE IF fault = "open" \/ id \in mk.dirs
     THEN [panicked |-> FALSE, ok |-> FALSE, dirs |-> mk.dirs,
           files |-> fsfiles, file |-> <<>>]
     ELSE [panicked |-> FALSE, ok |-> TRUE, dirs |-> mk.dirs,
           files |-> [f \in DOMAIN fsfiles \cup {id} |->
                        IF f = id THEN <<>> ELSE fsfiles[f]],
           file |-> id]

\* open_file: create_dir_all(parent).unwrap(), then open with append, read,
\* write, create; an open error is returned, a mkdir error panics.
open_file(fsdirs, fsfiles, path, fault) ==
  LET mk == create_dir_all(fsdirs, fsfiles, Parent(path), fault)
      id == Components(path)
  IN IF ~mk.ok
     THEN [panicked |-> TRUE, ok |-> FALSE, dirs |-> mk.dirs,
           files |-> fsfiles, file |-> <<>>]
     ELSE IF fault = "open" \/ id \in mk.dirs
     THEN [panicked |-> FALSE, ok |-> FALSE, dirs |-> mk.dirs,
           files |-> fsfiles, file |-> <<>>]
     ELSE [panicked |-> FALSE, ok |-> TRUE, dirs |-> mk.dirs,
           files |-> [f \in DOMAIN fsfiles \cup {id} |->
                        IF f \in DOMAIN fsfiles THEN fsfiles[f] ELSE <<>>],
           file |-> id]

WriteOver(fsfiles, id, data) == [fsfiles EXCEPT ![id] = data]

\* A write through a descriptor opened with append(true) lands at the end.
AppendTo(fsfiles, id, data) == [fsfiles EXCEPT ![id] = @ \o data]

\* history: the write log starts empty when a file comes to exist
LogCreated(log, fsfiles) ==
  [f \in DOMAIN fsfiles |-> IF f \in DOMAIN log THEN log[f] ELSE <<>>]

LogWrite(log, id, from, hid, message) ==
  [log EXCEPT ![id] = Append(@, [from |-> from, hid |-> hid,
                                 message |-> message])]

(***************************************************************************)
(* lru_cache::LruCache as handle_for uses it.                              *)
(***************************************************************************)
contains_key(h, from) == \E i \in 1..Len(h) : h[i].from = from

IndexOf(h, from) == CHOOSE i \in 1..Len(h) : h[i].from = from

Without(h, i) == SubSeq(h, 1, i - 1) \o SubSeq(h, i + 1, Len(h))

get_mut_no_promote(h, from) == h

\* get_mut: a hit moves the entry to the most recently used end.
get_mut(h, from) ==
  IF contains_key(h, from)
  THEN Without(h, IndexOf(h, from)) \o <<h[IndexOf(h, from)]>>
  ELSE h

insert_unbounded(h, capacity, entry) ==
  (IF contains_key(h, entry.from) THEN Without(h, IndexOf(h, entry.from))
   ELSE h) \o <<entry>>

insert_evict_newest(h, capacity, entry) ==
  LET put == (IF contains_key(h, entry.from)
              THEN Without(h, IndexOf(h, entry.from)) ELSE h) \o <<entry>>
  IN IF Len(put) > capacity THEN SubSeq(put, 1, Len(put) - 1) ELSE put

\* insert: the entry becomes the most recently used; when the cache then
\* holds more than capacity entries the least recently used one is removed
\* (dropping its LineWriter closes the file).
insert(h, capacity, entry) ==
  LET put == (IF contains_key(h, entry.from)
              THEN Without(h, IndexOf(h, entry.from)) ELSE h) \o <<entry>>
  IN IF Len(put) > capacity THEN Tail(put) ELSE put

(***************************************************************************)
(* ofborg::writetoline::LineWriter: a file and the count of lines emitted. *)
(***************************************************************************)
LineWriterNew(fp) == [file |-> fp, cursor |-> 0]

Blank(n) == [i \in 1..n |-> "\n"]

TextTokens(t) == IF t = "" THEN <<>> ELSE <<t>>

\* write_to_line(line, data), line counted from 0: what it appends to the
\* file (blank lines up to line, the text, a terminator) and the writer it
\* leaves.
write_to_line(w, line, data) ==
  [emitted |-> Blank(Max(0, line - w.cursor)) \o TextTokens(data) \o <<"\n">>,
   writer |-> [w EXCEPT !.cursor = Max(w.cursor, line + 1)]]

(***************************************************************************)
(* Messages.                                                               *)
(***************************************************************************)
Attrs(some, v) == [some |-> some, v |-> v]

BuildLogStart(system, identity, attempt_id, attempted_attrs, skipped_attrs) ==
  [system |-> system, identity |-> identity, attempt_id |-> attempt_id,
   attempted_attrs |-> attempted_attrs, skipped_attrs |-> skipped_attrs]

NoStart == BuildLogStart("", "", "", Attrs(FALSE, <<>>), Attrs(FALSE, <<>>))

Starts ==
  {BuildLogStart("foobar-x8664", "my-identity", "my-attempt-id",
                 Attrs(TRUE, <<"foo">>), Attrs(TRUE, <<"bar">>)),
   BuildLogStart("x86_64-linux", "my-identity", "a",
                 Attrs(FALSE, <<>>), Attrs(TRUE, <<>>))}

Texts == {"", "line"}

StartMsg(data) ==
  [type |-> "Start", data |-> data, line_number |-> 0, output |-> ""]

ChunkMsg(line_number, output) ==
  [type |-> "Msg", data |-> NoStart, line_number |-> line_number,
   output |-> output]

FinishMsg ==
  [type |-> "Finish", data |-> NoStart, line_number |-> 0, output |-> ""]

\* A chunk with line_number 0 never gets as far as writing its output, so
\* one output stands for all of them.
Messages ==
  {StartMsg(d) : d \in Starts}
    \cup {ChunkMsg(n, t) : n \in 1..MaxLine, t \in Texts}
    \cup {ChunkMsg(0, "line")}
    \cup {FinishMsg}

\* A delivery's body: whether it is a JSON object, which fields it has, and
\* the values of the fields the collector reads.
Body(json, fields, attempt_id, line_number, output) ==
  [json |-> json, fields |-> fields, attempt_id |-> attempt_id,
   line_number |-> line_number, output |-> output]

Deliver(routing_key) == [routing_key |-> routing_key]

\* The fields a shape cannot be decoded without (an Option field may be
\* missing, a field the shape does not have is ignored).
Required(shape) ==
  CASE shape = "BuildLogMsg" ->
         {"system", "identity", "attempt_id", "line_number", "output"}
    [] shape = "BuildLogStart" -> {"system", "identity", "attempt_id"}
    [] shape = "BuildResult" -> {"attempt_id", "result"}

\* serde_json::from_slice::<shape>(body)
from_slice(body, shape) == body.json /\ Required(shape) \subseteq body.fields

Job(ok, from, message) == [ok |-> ok, from |-> from, message |-> message]

DecodedStart(body) ==
  StartMsg(BuildLogStart("x86_64-linux", "my-identity", body.attempt_id,
                         Attrs(FALSE, <<>>), Attrs(FALSE, <<>>)))

msg_to_job_start_first(deliver, body) ==
  IF from_slice(body, "BuildLogStart")
  THEN Job(TRUE, LogFrom(deliver.routing_key, body.attempt_id),
           DecodedStart(body))
  ELSE IF from_slice(body, "BuildLogMsg")
  THEN Job(TRUE, LogFrom(deliver.routing_key, body.attempt_id),
           ChunkMsg(body.line_number, body.output))
  ELSE IF from_slice(body, "BuildResult")
  THEN Job(TRUE, LogFrom(deliver.routing_key, body.attempt_id), FinishMsg)
  ELSE Job(FALSE, LogFrom(<<>>, <<>>), FinishMsg)

msg_to_job_lenient(deliver, body) ==
  IF from_slice(body, "BuildLogMsg")
  THEN Job(TRUE, LogFrom(deliver.routing_key, body.attempt_id),
           ChunkMsg(body.line_number, body.output))
  ELSE IF from_slice(body, "BuildLogStart")
  THEN Job(TRUE, LogFrom(deliver.routing_key, body.attempt_id),
           DecodedStart(body))
  ELSE Job(TRUE, LogFrom(deliver.routing_key, body.attempt_id), FinishMsg)

\* msg_to_job: BuildLogMsg, then BuildLogStart, then BuildResult; the key is
\* the delivery's routing key with the decoded attempt_id.
msg_to_job(deliver, body) ==
  IF from_slice(body, "BuildLogMsg")
  THEN Job(TRUE, LogFrom(deliver.routing_key, body.attempt_id),
           ChunkMsg(body.line_number, body.output))
  ELSE IF from_slice(body, "BuildLogStart")
  THEN Job(TRUE, LogFrom(deliver.routing_key, body.attempt_id),
           DecodedStart(body))
  ELSE IF from_slice(body, "BuildResult")
  THEN Job(TRUE, LogFrom(deliver.routing_key, body.attempt_id), FinishMsg)
  ELSE Job(FALSE, LogFrom(<<>>, <<>>), FinishMsg)

EncAttrs(a) == IF a.some THEN <<"[">> \o a.v \o <<"]">> ELSE <<"null">>

\* serde_json::to_string of a BuildLogStart: the fields in declaration order.
to_string(data) ==
  <<"{", "system:", data.system, "identity:", data.identity,
    "attempt_id:", data.attempt_id, "attempted_attrs:">>
    \o EncAttrs(data.attempted_attrs)
    \o <<"skipped_attrs:">> \o EncAttrs(data.skipped_attrs) \o <<"}">>

(***************************************************************************)
(* The collector's methods.  self is the collector with the disk it works  *)
(* on; a method returns the new self with what it returned to its caller.  *)
(***************************************************************************)
Self ==
  [log_root |-> log_root, max_open |-> max_open, handles |-> handles,
   files |-> files, dirs |-> dirs, nopen |-> nopen, clock |-> clock]

\* What a method hands back: whether it panicked, its Result, the state it
\* leaves, and the write it made (wfile = <<>>: none).
Returned(self, panicked, ok, err, wfile, whid, wdata) ==
  [panicked |-> panicked, ok |-> ok, err |-> err, handles |-> self.handles,
   files |-> self.files, dirs |-> self.dirs, nopen |-> self.nopen,
   wfile |-> wfile, whid |-> whid, wdata |-> wdata]

write_metadata(self, from, data, fault) ==
  LET metapath == path_for_metadata(self.log_root, from)
      fp == open_file(self.dirs, self.files, metapath.path, fault)
      opened == [self EXCEPT !.dirs = fp.dirs, !.files = fp.files]
  IN IF ~metapath.ok
     THEN Returned(self, FALSE, FALSE, metapath.err, <<>>, 0, <<>>)
     ELSE IF fp.panicked
     THEN Returned(opened, TRUE, FALSE, "", <<>>, 0, <<>>)
     ELSE IF ~fp.ok
     THEN Returned(opened, FALSE, FALSE, "Failed to open the file", <<>>, 0, <<>>)
     ELSE IF fault = "write"
     THEN Returned(opened, FALSE, FALSE, "Failed to write metadata", <<>>, 0, <<>>)
     ELSE Returned([opened EXCEPT
                      !.files = AppendTo(@, fp.file, to_string(data))],
                   FALSE, TRUE, "", fp.file, 0, to_string(data))

Entry(from, writer, hid, used) ==
  [from |-> from, writer |-> writer, hid |-> hid, used |-> used]

\* history: the entry of from was handed out at clock now
Touch(h, from, now) ==
  [i \in 1..Len(h) |-> IF h[i].from = from THEN [h[i] EXCEPT !.used = now]
                        ELSE h[i]]

handle_for(self, from, fault) ==
  LET logpath == path_for_log(self.log_root, from)
      fp == open_file(self.dirs, self.files, logpath.path, fault)
      opened == [self EXCEPT !.dirs = fp.dirs, !.files = fp.files]
      writer == LineWriterNew(fp.file)
      put == insert(self.handles, self.max_open,
                    Entry(from, writer, self.nopen + 1, self.clock))
  IN IF contains_key(self.handles, from)
     THEN Returned([self EXCEPT
                      !.handles = Touch(get_mut(@, from), from, self.clock)],
                   FALSE, TRUE, "", <<>>, 0, <<>>)
     ELSE IF ~logpath.ok
     THEN Returned(self, FALSE, FALSE, logpath.err, <<>>, 0, <<>>)
     ELSE IF fp.panicked
     THEN Returned(opened, TRUE, FALSE, "", <<>>, 0, <<>>)
     ELSE IF ~fp.ok
     THEN Returned(opened, FALSE, FALSE, "Failed to open the file", <<>>, 0, <<>>)
     ELSE IF contains_key(put, from)
     THEN Returned([opened EXCEPT !.handles = get_mut(put, from),
                                  !.nopen = @ + 1],
                   FALSE, TRUE, "", <<>>, 0, <<>>)
     ELSE Returned([opened EXCEPT !.handles = put, !.nopen = @ + 1],
                   FALSE, FALSE,
                   "A just-inserted value should already be there",
                   <<>>, 0, <<>>)

line_index_no_offset(line_number) == line_number

\* (message.line_number - 1) as usize
line_index(line_number) == line_number - 1

\* consumer, the Msg arm after handle_for(..).unwrap() returned the handle
\* (the most recently used entry).  line_number 0 makes the unsigned
\* subtraction overflow: a panic, or an index of 2^64 - 1 whose padding
\* never completes; pad is how many blank lines reached the disk.
write_chunk(got, message, pad) ==
  LET n == Len(got.handles)
      handle == got.handles[n]
      fp == handle.writer.file
      wrote == write_to_line(handle.writer, line_index(message.line_number),
                             message.output)
  IN IF message.line_number = 0
     THEN [got EXCEPT !.panicked = TRUE, !.ok = FALSE,
             !.files = AppendTo(@, fp, Blank(pad)),
             !.wfile = IF pad = 0 THEN <<>> ELSE fp,
             !.whid = handle.hid, !.wdata = Blank(pad)]
     ELSE [got EXCEPT
             !.files = AppendTo(@, fp, wrote.emitted),
             !.handles[n].writer = wrote.writer,
             !.wfile = fp, !.whid = handle.hid, !.wdata = wrote.emitted]

consumer_ignoring_errors(self, job, fault, pad) ==
  LET wrote == write_metadata(self, job.from, job.message.data, fault)
      got == handle_for(self, job.from, fault)
  IN CASE job.message.type = "Start" -> wrote
       [] job.message.type = "Msg" ->
            IF got.panicked \/ ~got.ok THEN got
            ELSE write_chunk(got, job.message, pad)
       [] OTHER -> Returned(self, FALSE, TRUE, "", <<>>, 0, <<>>)

consumer_finish_opens(self, job, fault, pad) ==
  LET wrote == write_metadata(self, job.from, job.message.data, fault)
      got == handle_for(self, job.from, fault)
  IN CASE job.message.type = "Start" ->
            IF wrote.panicked \/ ~wrote.ok THEN [wrote EXCEPT !.panicked = TRUE]
            ELSE wrote
       [] job.message.type = "Msg" ->
            IF got.panicked \/ ~got.ok THEN [got EXCEPT !.panicked = TRUE]
            ELSE write_chunk(got, job.message, pad)
       [] OTHER -> IF got.panicked \/ ~got.ok THEN [got EXCEPT !.panicked = TRUE]
                   ELSE got

\* consumer up to its return: Start expects write_metadata, Msg unwraps
\* handle_for and writes the line, Finish does nothing.
consumer(self, job, fault, pad) ==
  LET wrote == write_metadata(self, job.from, job.message.data, fault)
      got == handle_for(self, job.from, fault)
  IN CASE job.message.type = "Start" ->
            IF wrote.panicked \/ ~wrote.ok THEN [wrote EXCEPT !.panicked = TRUE]
            ELSE wrote
       [] job.message.type = "Msg" ->
            IF got.panicked \/ ~got.ok THEN [got EXCEPT !.panicked = TRUE]
            ELSE write_chunk(got, job.message, pad)
       [] OTHER -> Returned(self, FALSE, TRUE, "", <<>>, 0, <<>>)

\* history: the most files open at once while a call that started on self
\* and handed back r ran.  handle_for holds the file it opened next to the
\* cached ones until insert drops the evicted LineWriter; write_metadata
\* holds the sidecar next to the cached ones until it returns.
files_open(self, r) ==
  IF r.nopen > self.nopen \/ (r.wfile # <<>> /\ r.whid = 0)
  THEN Len(self.handles) + 1
  ELSE Max(Len(self.handles), Len(r.handles))

actions_nack(r) == IF r.panicked THEN <<>> ELSE <<"NackRequeue">>

\* return vec![worker::Action::Ack]; a panic returns nothing.
actions_of(r) == IF r.panicked THEN <<>> ELSE <<"Ack">>

(***************************************************************************)
(* Actions: one per call made on the collector.                            *)
(***************************************************************************)
Called(op, from, message, ok, path, actions) ==
  [op |-> op, from |-> from, type |-> message.type,
   line_number |-> message.line_number, ok |-> ok, path |-> path,
   actions |-> actions]

NextLog(r, from, message) ==
  IF r.wfile = <<>> THEN LogCreated(wlog, r.files)
  ELSE LogWrite(LogCreated(wlog, r.files), r.wfile, from, r.whid, message)

\* LogMessageCollector::new(log_root, max_open) on an empty disk
InitWith(roots, capacities, calls) ==
  /\ log_root \in roots
  /\ max_open \in capacities
  /\ handles = <<>>
  /\ files = <<>>
  /\ dirs = {SubSeq(Components(log_root), 1, i) :
               i \in 1..Len(Components(log_root))}
  /\ crashed = FALSE
  /\ last = Called("new", LogFrom(<<>>, <<>>), FinishMsg, TRUE, <<>>, <<>>)
  /\ clock = 0
  /\ limit = calls
  /\ nopen = 0
  /\ wlog = <<>>
  /\ peak = 0

Init == InitWith({LogRoot}, 0..MaxOpenBound, MaxOps)

\* worker.consumer(&job)
Consumer(from, message, fault, pad) ==
  /\ ~crashed
  /\ clock < limit
  /\ message.type = "Finish" => fault = "none"
  /\ message.type = "Msg" => fault # "write"
  /\ \E r \in {consumer(Self, [from |-> from, message |-> message], fault, pad)} :
        /\ handles' = r.handles
        /\ files' = r.files
        /\ dirs' = r.dirs
        /\ nopen' = r.nopen
        /\ crashed' = r.panicked
        /\ wlog' = NextLog(r, from, message)
        /\ peak' = files_open(Self, r)
        /\ last' = Called("consumer", from, message, ~r.panicked, <<>>,
                          actions_of(r))
  /\ clock' = clock + 1
  /\ UNCHANGED <<log_root, max_open, limit>>

\* worker.handle_for(&from), called directly
HandleFor(from, fault) ==
  /\ ~crashed
  /\ clock < limit
  /\ fault # "write"
  /\ \E r \in {handle_for(Self, from, fault)} :
        /\ handles' = r.handles
        /\ files' = r.files
        /\ dirs' = r.dirs
        /\ nopen' = r.nopen
        /\ crashed' = r.panicked
        /\ wlog' = NextLog(r, from, FinishMsg)
        /\ peak' = files_open(Self, r)
        /\ last' = Called("handle_for", from, FinishMsg, r.ok, <<>>, <<>>)
  /\ clock' = clock + 1
  /\ UNCHANGED <<log_root, max_open, limit>>

\* worker.path_for_log(&from)
PathForLog(from) ==
  /\ ~crashed
  /\ clock < limit
  /\ \E r \in {path_for_log(log_root, from)} :
        last' = Called("path_for_log", from, FinishMsg, r.ok, r.path, <<>>)
  /\ clock' = clock + 1
  /\ peak' = Len(handles)
  /\ UNCHANGED <<log_root, max_open, handles, files, dirs, crashed, limit,
                 nopen, wlog>>

\* worker.path_for_metadata(&from)
PathForMetadata(from) ==
  /\ ~crashed
  /\ clock < limit
  /\ \E r \in {path_for_metadata(log_root, from)} :
        last' = Called("path_for_metadata", from, FinishMsg, r.ok, r.path, <<>>)
  /\ clock' = clock + 1
  /\ peak' = Len(handles)
  /\ UNCHANGED <<log_root, max_open, handles, files, dirs, crashed, limit,
                 nopen, wlog>>

\* What msg_to_job was given and what it returned.
Decoded(deliver, body, job) ==
  [op |-> "msg_to_job", from |-> job.from, type |-> job.message.type,
   line_number |-> job.message.line_number, ok |-> job.ok, path |-> <<>>,
   actions |-> <<>>, deliver |-> deliver, body |-> body,
   message |-> job.message]

\* A job that msg_to_job returned and consumer has not been given yet.
Pending == last.op = "msg_to_job" /\ last.ok

\* worker.msg_to_job(&deliver, &properties, &body)
MsgToJob(deliver, body) ==
  /\ ~crashed
  /\ clock < limit
  /\ ~Pending
  /\ last' = Decoded(deliver, body, msg_to_job(deliver, body))
  /\ clock' = clock + 1
  /\ peak' = Len(handles)
  /\ UNCHANGED <<log_root, max_open, handles, files, dirs, crashed, limit,
                 nopen, wlog>>

\* The worker process is started again after a panic: a new collector on the
\* same disk.
Restart ==
  /\ crashed
  /\ handles' = <<>>
  /\ crashed' = FALSE
  /\ last' = Called("new", LogFrom(<<>>, <<>>), FinishMsg, TRUE, <<>>, <<>>)
  /\ peak' = 0
  /\ UNCHANGED <<log_root, max_open, files, dirs, clock, limit, nopen, wlog>>

PadOf(message) == IF message.line_number = 0 /\ message.type = "Msg"
                  THEN 0..MaxPad ELSE {0}

Next ==
  \/ clock < limit /\ \E from \in DynKeys, message \in Messages :
       \E pad \in PadOf(message) : Consumer(from, message, "none", pad)
  \/ clock < limit /\ \E from \in DynKeys : HandleFor(from, "none")
  \/ Restart

Spec == Init /\ [][Next]_vars

(***************************************************************************)
(* CacheSpec: longer runs of handle_for calls and chunk messages.          *)
(***************************************************************************)
CacheInit == InitWith({LogRoot}, 0..MaxOpenBound, CacheOps)

CacheNext ==
  \/ clock < limit /\ \E from \in CacheKeys :
       Consumer(from, ChunkMsg(1, "line"), "none", 0)
  \/ clock < limit /\ \E from \in CacheKeys : HandleFor(from, "none")
  \/ Restart

CacheSpec == CacheInit /\ [][CacheNext]_vars

(***************************************************************************)
(* PathSpec: one call on a new collector, for every key of up to MaxLen    *)
(* characters.                                                             *)
(***************************************************************************)
PathInit == InitWith(PathRoots, {1}, 1)

PathMessages == {StartMsg(NoStart), ChunkMsg(1, "line")}

PathNext ==
  \/ clock < limit /\ \E from \in AllKeys : PathForLog(from)
  \/ clock < limit /\ \E from \in AllKeys : PathForMetadata(from)
  \/ clock < limit /\ \E from \in AllKeys, message \in PathMessages :
                        Consumer(from, message, "none", 0)
  \/ clock < limit /\ \E from \in AllKeys : HandleFor(from, "none")
  \/ Restart

PathSpec == PathInit /\ [][PathNext]_vars

(***************************************************************************)
(* WorkerSpec: the worker loop.  Each delivery is decoded by msg_to_job and *)
(* the job it returns is given to consumer before the next delivery.       *)
(***************************************************************************)
WorkerInit == InitWith({LogRoot}, {MaxOpenBound}, WorkerOps)

ChunkFields == Required("BuildLogMsg")
StartFields == Required("BuildLogStart")
FinishFields == Required("BuildResult")

\* The field sets of the deliveries: the three shapes, a chunk with result
\* fields, a start with result fields, and one that is no shape.
FieldSets ==
  {ChunkFields, StartFields, FinishFields, ChunkFields \cup FinishFields,
   StartFields \cup FinishFields, {"system", "output"}}

Bodies ==
  {Body(TRUE, f, a, 1, "line") : f \in FieldSets, a \in {Plain, Dotted}}
    \cup {Body(FALSE, {}, <<>>, 0, "")}

Deliveries == {Deliver(Plain), Deliver(Upward)}

WorkerNext ==
  \/ clock < limit /\ \E deliver \in Deliveries, body \in Bodies :
       MsgToJob(deliver, body)
  \/ clock < limit /\ Pending
       /\ Consumer(last.from, last.message, "none", 0)
  \/ Restart

WorkerSpec == WorkerInit /\ [][WorkerNext]_vars

(***************************************************************************)
(* Properties.                                                             *)
(***************************************************************************)
\* Lexical resolution of a component list: "." is skipped, ".." removes the
\* name before it (and stays when there is none to remove).
RECURSIVE Resolve(_, _)
Resolve(done, rest) ==
  IF rest = <<>> THEN done
  ELSE IF Head(rest) = CurDir THEN Resolve(done, Tail(rest))
  ELSE IF Head(rest) # ParentDir THEN Resolve(Append(done, Head(rest)), Tail(rest))
  ELSE IF done # <<>> /\ IsNormal(done[Len(done)])
  THEN Resolve(SubSeq(done, 1, Len(done) - 1), Tail(rest))
  ELSE IF done # <<>> /\ done[Len(done)] = RootDir THEN Resolve(done, Tail(rest))
  ELSE Resolve(Append(done, ParentDir), Tail(rest))

\* The location path names is root or lies below it.
Under(path, root) ==
  IsPrefixSeq(Resolve(<<>>, Components(root)), Resolve(<<>>, Components(path)))

InitialDirs ==
  {SubSeq(Components(log_root), 1, i) : i \in 1..Len(Components(log_root))}

HasPiece(segment, piece) ==
  \E i \in 1..Len(Split(segment)) : Split(segment)[i] = piece

\* C1: whatever routing_key and attempt_id hold, a path that path_for_log or
\* path_for_metadata returns starts with the configured root, component by
\* component, and names a location at or below the root; every other
\* resolution is an error.
C1_ResolvedUnderRoot ==
  (last.op \in {"path_for_log", "path_for_metadata"} /\ last.ok)
    => /\ starts_with(last.path, log_root)
       /\ Under(last.path, log_root)

C1_Witness ==
  /\ last.op = "path_for_metadata"
  /\ last.ok
  /\ last.from.routing_key = Nested
  /\ last.from.attempt_id = <<Dot, "a", Dot>>

\* What a call on a key with a segment that bad(_) holds of must do: the
\* resolution is an error, handle_for and the Start and Msg arms of consumer
\* fail, and the disk is as it was when the collector was made.
FailsClosed(bad(_)) ==
  (bad(last.from.routing_key) \/ bad(last.from.attempt_id))
    => CASE last.op \in {"path_for_log", "path_for_metadata"} -> ~last.ok
         [] last.op = "handle_for" \/ (last.op = "consumer" /\ last.type # "Finish") ->
              ~last.ok /\ files = <<>> /\ dirs = InitialDirs
         [] OTHER -> TRUE

C2_AsClaimed(segment) ==
  \/ HasPiece(segment, ParentDir)
  \/ HasPiece(segment, CurDir)
  \/ segment = <<>>
  \/ has_root(segment)

C2_Rejected(segment) ==
  \/ HasPiece(segment, ParentDir)
  \/ Split(segment)[1] = CurDir
  \/ segment = <<>>
  \/ has_root(segment)

\* C2 as claimed: a key one of whose segments contains a ".." component,
\* contains a "." component, is empty or is absolute does not resolve and
\* nothing is created.  ("a/." has a "." component and resolves.)
C2_AnyDotComponentFails == FailsClosed(C2_AsClaimed)

\* C2, amended: a key one of whose segments contains a ".." component,
\* starts with a "." component, is empty or is absolute does not resolve, and
\* handling a message for it creates no file and no directory.  (A "."
\* after the first component is dropped by the parse: "foo/./bar" is valid.)
C2_BadSegmentFailsClosed == FailsClosed(C2_Rejected)

C2_Witness ==
  /\ last.op = "consumer"
  /\ last.type = "Msg"
  /\ last.from.routing_key = Plain
  /\ last.from.attempt_id = <<Dot, Sep, "a">>
  /\ crashed
  /\ files = <<>>

\* C3: a collector constructed with max_open = N never caches more than N
\* handles, whatever handle_for calls and messages it has served.
C3_CacheWithinCapacity == Len(handles) <= max_open

C3_Witness ==
  /\ max_open = 2
  /\ Len(handles) = 2
  /\ nopen = 3
  /\ ~crashed

\* C4: a consumer call that returns (no panic) returns exactly <<Ack>>,
\* whatever the kind of the message; a Finish always returns; a call that
\* panics returns no action at all.
C4_ExactlyOneAck ==
  last.op = "consumer"
    => /\ ~crashed => last.actions = <<"Ack">>
       /\ crashed => last.actions = <<>>
       /\ last.type = "Finish" => ~crashed

C4_Witness ==
  /\ last.op = "consumer"
  /\ last.type = "Msg"
  /\ last.line_number = 2
  /\ last.actions = <<"Ack">>

\* The writes of log are chunks written through one LineWriter, with line
\* numbers from 1 that strictly increase.
OneWriterAscending(log) ==
  /\ log # <<>>
  /\ \A i \in 1..Len(log) :
       /\ log[i].message.type = "Msg"
       /\ log[i].hid = log[1].hid
       /\ log[i].message.line_number >= 1
       /\ i > 1 => log[i].message.line_number > log[i - 1].message.line_number

TextAt(log, n) ==
  IF \E i \in 1..Len(log) : log[i].message.line_number = n
  THEN log[CHOOSE i \in 1..Len(log) : log[i].message.line_number = n].message.output
  ELSE ""

RECURSIVE Rendered(_)
Rendered(lines) ==
  IF lines = <<>> THEN <<>>
  ELSE (IF Head(lines) = "" THEN <<>> ELSE <<Head(lines)>>)
         \o <<"\n">> \o Rendered(Tail(lines))

ExpectedLines(log) ==
  [n \in 1..log[Len(log)].message.line_number |-> TextAt(log, n)]

\* C5: a log file all of whose content was written by the Chunk events of
\* one key through one cached handle, with strictly increasing 1-based line
\* numbers, has as many terminated lines as the largest line number; the
\* text of each chunk is on the line of its line_number and every other line
\* is empty.
C5_SparseLinesAligned ==
  \A f \in DOMAIN files :
    OneWriterAscending(wlog[f]) => files[f] = Rendered(ExpectedLines(wlog[f]))

C5_Witness ==
  \E f \in DOMAIN files :
    /\ OneWriterAscending(wlog[f])
    /\ Len(wlog[f]) = 2
    /\ wlog[f][1].message = ChunkMsg(1, "line")
    /\ wlog[f][2].message = ChunkMsg(3, "line")
    /\ files[f] = <<"line", "\n", "\n", "line", "\n">>

\* C6: no step changes what a file already holds (its content before the
\* step is a prefix of its content after it, across evictions and reopens),
\* and the cursor of a LineWriter that stays in the cache never decreases.
C6_AppendOnly ==
  [][/\ \A f \in DOMAIN files :
          f \in DOMAIN files' /\ IsPrefixSeq(files[f], files'[f])
     /\ \A i \in 1..Len(handles), j \in 1..Len(handles') :
          handles[i].hid = handles'[j].hid
            => handles'[j].writer.cursor >= handles[i].writer.cursor]_vars

C6_Witness ==
  /\ max_open = 1
  /\ clock = 3
  /\ \E f \in DOMAIN files :
       /\ Len(wlog[f]) = 2
       /\ wlog[f][1].from = wlog[f][2].from
       /\ wlog[f][1].hid = 1
       /\ wlog[f][2].hid = 3
       /\ wlog[f][1].message.type = "Msg"
       /\ wlog[f][2].message.type = "Msg"

RECURSIVE Documents(_, _)
Documents(log, from) ==
  IF log = <<>> THEN <<>>
  ELSE (IF Head(log).from = from /\ Head(log).message.type = "Start"
        THEN to_string(Head(log).message.data) ELSE <<>>)
         \o Documents(Tail(log), from)

SidecarOf(from) == Components(path_for_metadata(log_root, from).path)

\* C7: the sidecar of a key holds the JSON documents of the Start events
\* dispatched for that key, in dispatch order, and nothing else.  (Keys whose
\* sidecar paths coincide, such as attempts "a" and "a.a" under one routing
\* key, write into one file.)
C7_SidecarHoldsOwnStarts ==
  \A from \in DynKeys :
    (path_for_metadata(log_root, from).ok /\ SidecarOf(from) \in DOMAIN files)
      => files[SidecarOf(from)] = Documents(wlog[SidecarOf(from)], from)

WithSuffix(c, suffix) == [c EXCEPT ![Len(c)] = @ \o <<Dot>> \o suffix]

\* C8: for every key that resolves, the sidecar path is the log path with
\* ".metadata.json" added to its last component, also when attempt_id has a
\* "." in it.  (set_extension replaces what follows the last "." of the
\* name: attempt "a.a" gets the sidecar "a.metadata.json".)
C8_SidecarIsLogPathPlusSuffix ==
  (last.op = "path_for_metadata" /\ last.ok)
    => Components(last.path)
         = WithSuffix(Components(path_for_log(log_root, last.from).path),
                      MetadataExtension)

LogFileOf(from) == Components(path_for_log(log_root, from).path)

\* Nothing on disk is in the way of opening the log file of from.
NoConflict(from) ==
  /\ LogFileOf(from) \notin dirs
  /\ \A i \in 1..(Len(LogFileOf(from)) - 1) :
       SubSeq(LogFileOf(from), 1, i) \notin DOMAIN files

\* C9: with max_open >= 1, a key that resolves and nothing on disk in the
\* way, handle_for returns Ok, the handle it returns is the cached entry of
\* that key on that key's log file, and the key is in the cache after the
\* call: for a new key, a cached one and one that was evicted before.
C9_HandleForSucceeds ==
  [][(/\ last'.op = "handle_for"
      /\ clock' = clock + 1
      /\ max_open >= 1
      /\ path_for_log(log_root, last'.from).ok
      /\ NoConflict(last'.from))
       => /\ last'.ok
          /\ ~crashed'
          /\ handles' # <<>>
          /\ handles'[Len(handles')].from = last'.from
          /\ handles'[Len(handles')].writer.file = LogFileOf(last'.from)]_vars

C9_Witness ==
  /\ last.op = "handle_for"
  /\ last.ok
  /\ max_open = 1
  /\ clock = 3
  /\ nopen = 3
  /\ Cardinality(DOMAIN files) = 2
  /\ handles[1].used = 2

Hids(h) == {h[i].hid : i \in 1..Len(h)}

EntryOf(h, hid) == h[CHOOSE i \in 1..Len(h) : h[i].hid = hid]

\* C10 (max_open >= 1): a call that inserts a new key keeps it in the cache;
\* it evicts exactly one entry when the cache was full and none otherwise,
\* and the evicted entry is the one whose last access (insertion or hit) is
\* the oldest.  A call that hits a cached key evicts nothing and makes that
\* entry's access the newest.
C10_EvictsLeastRecentlyUsed ==
  [][(max_open >= 1 /\ clock' = clock + 1)
       => /\ nopen' = nopen + 1
            => /\ nopen' \in Hids(handles')
               /\ Hids(handles') \ {nopen'} \subseteq Hids(handles)
               /\ Cardinality(Hids(handles) \ Hids(handles'))
                    = (IF Len(handles) = max_open THEN 1 ELSE 0)
               /\ \A gone \in Hids(handles) \ Hids(handles') :
                    \A kept \in Hids(handles) :
                      EntryOf(handles, gone).used <= EntryOf(handles, kept).used
          /\ (nopen' = nopen /\ last'.ok /\ contains_key(handles, last'.from)
              /\ (last'.op = "handle_for" \/ last'.type = "Msg"))
            => /\ Hids(handles') = Hids(handles)
               /\ \A i \in 1..Len(handles') :
                    IF handles'[i].from = last'.from
                    THEN handles'[i].used = clock
                    ELSE handles'[i].used < clock]_vars

C10_Witness ==
  /\ max_open = 2
  /\ clock = 4
  /\ nopen = 3
  /\ Len(handles) = 2
  /\ handles[1].hid = 1
  /\ handles[1].used = 2
  /\ handles[2].hid = 3

Order == <<"BuildLogMsg", "BuildLogStart", "BuildResult">>

TypeOf(shape) ==
  CASE shape = "BuildLogMsg" -> "Msg"
    [] shape = "BuildLogStart" -> "Start"
    [] shape = "BuildResult" -> "Finish"

Decodable(body) == {i \in 1..Len(Order) : from_slice(body, Order[i])}

\* C11: msg_to_job returns a job exactly when the body decodes as one of the
\* shapes; the job's kind is that of the first shape, in the order Chunk,
\* Start, Finish, that the body decodes as, and its key is the delivery's
\* routing key with the body's attempt_id.
C11_FirstShapeInOrder ==
  last.op = "msg_to_job"
    => /\ last.ok <=> Decodable(last.body) # {}
       /\ last.ok
            => /\ last.type = TypeOf(Order[MinOf(Decodable(last.body))])
               /\ last.from = LogFrom(last.deliver.routing_key,
                                      last.body.attempt_id)

C11_Witness ==
  /\ last.op = "msg_to_job"
  /\ Decodable(last.body) = {1, 2, 3}
  /\ last.type = "Msg"
  /\ last.from = LogFrom(Upward, Dotted)

PlainNames(segment) ==
  /\ Components(segment) # <<>>
  /\ \A i \in 1..Len(Components(segment)) : IsNormal(Components(segment)[i])

\* C12: for a key whose routing_key and attempt_id each parse to one or more
\* plain names, path_for_log returns Ok with the root's components, then
\* routing_key's, then attempt_id's, and that path is strictly inside the
\* root.
C12_ValidKeyResolvesInsideRoot ==
  (/\ last.op = "path_for_log"
   /\ PlainNames(last.from.routing_key)
   /\ PlainNames(last.from.attempt_id))
    => /\ last.ok
       /\ Components(last.path)
            = Components(log_root) \o Components(last.from.routing_key)
                \o Components(last.from.attempt_id)
       /\ Under(last.path, log_root)
       /\ Resolve(<<>>, Components(last.path))
            # Resolve(<<>>, Components(log_root))

C12_Witness ==
  /\ last.op = "path_for_log"
  /\ last.ok
  /\ last.from = LogFrom(Nested, Dotted)
  /\ Len(Components(last.path)) = Len(Components(log_root)) + 3

\* C13: with max_open = N >= 1, no call ever holds more than N files open
\* at once, the file handle_for has just opened and the sidecar that
\* write_metadata is writing included.  (handle_for opens the new file
\* before insert evicts, write_metadata opens the sidecar next to a full
\* cache: N + 1 files are open.)
C13_OpenFilesWithinCapacity == max_open >= 1 => peak <= max_open

\* C14: a Start or Msg job whose key has a rejected segment fails without
\* touching the disk or the cache: no file is opened, no file or directory
\* is created, the cache keeps its entries, their order and their cursors,
\* and consumer returns no action.
C14_BadKeyFailsUntouched ==
  [][(/\ last'.op = "consumer"
      /\ clock' = clock + 1
      /\ last'.type \in {"Start", "Msg"}
      /\ (C2_Rejected(last'.from.routing_key)
            \/ C2_Rejected(last'.from.attempt_id)))
       => /\ UNCHANGED <<files, dirs, handles, nopen>>
          /\ peak' = Len(handles)
          /\ crashed'
          /\ last'.actions = <<>>]_vars

C14_Witness ==
  /\ last.op = "consumer"
  /\ last.type = "Msg"
  /\ last.from.routing_key = Upward
  /\ crashed
  /\ Len(handles) = 2
  /\ handles[1].writer.cursor = 1

\* C15: a handle_for call that fails returns an error value to its caller;
\* it never aborts inside the call.  (open_file unwraps create_dir_all: a
\* file where a directory is needed panics inside handle_for.)
C15_FailuresAreReturned == last.op = "handle_for" => ~crashed

\* C16: msg_to_job returns an error for a body that decodes as none of the
\* shapes, and no msg_to_job call, failed or not, changes the cache or the
\* disk or opens a file.
C16_DecodeErrorNoEffects ==
  [][(last'.op = "msg_to_job" /\ clock' = clock + 1)
       => /\ Decodable(last'.body) = {} => ~last'.ok
          /\ UNCHANGED <<handles, files, dirs, nopen, wlog, crashed>>
          /\ peak' = Len(handles)]_vars

C16_Witness ==
  /\ last.op = "msg_to_job"
  /\ ~last.ok
  /\ last.body.json
  /\ Len(handles) = 1
  /\ Cardinality(DOMAIN files) = 2

\* C17: a Finish job changes nothing: no file is opened, created or written,
\* no directory is created, the cache keeps its entries, their order and
\* their cursors; consumer returns exactly <<Ack>>, also for a key that does
\* not resolve.
C17_FinishChangesNothing ==
  [][(last'.op = "consumer" /\ clock' = clock + 1 /\ last'.type = "Finish")
       => /\ UNCHANGED <<handles, files, dirs, nopen, wlog>>
          /\ peak' = Len(handles)
          /\ ~crashed'
          /\ last'.actions = <<"Ack">>]_vars

C17_Witness ==
  /\ last.op = "consumer"
  /\ last.type = "Finish"
  /\ last.from.routing_key = Upward
  /\ last.actions = <<"Ack">>
  /\ Len(handles) = 2

CachedEntry(h, from) == h[IndexOf(h, from)]

\* C18: a chunk with a line_number from 1 up to the cursor of its key's
\* cached handle appends its text and one terminator right after what the
\* file holds, with no blank line before it, changes nothing the file held,
\* and leaves the cursor where it was.
C18_LateChunkAppends ==
  [][(/\ last'.op = "consumer"
      /\ clock' = clock + 1
      /\ last'.type = "Msg"
      /\ last'.line_number >= 1
      /\ contains_key(handles, last'.from)
      /\ last'.line_number <= CachedEntry(handles, last'.from).writer.cursor)
       => LET f == CachedEntry(handles, last'.from).writer.file
              written == wlog'[f][Len(wlog'[f])].message
          IN /\ ~crashed'
             /\ Len(wlog'[f]) = Len(wlog[f]) + 1
             /\ written.line_number = last'.line_number
             /\ files'[f] = files[f] \o TextTokens(written.output) \o <<"\n">>
             /\ contains_key(handles', last'.from)
             /\ CachedEntry(handles', last'.from).writer.cursor
                  = CachedEntry(handles, last'.from).writer.cursor]_vars

C18_Witness ==
  /\ last.op = "consumer"
  /\ last.line_number = 1
  /\ handles # <<>>
  /\ handles[Len(handles)].writer.cursor = 3
  /\ files[handles[Len(handles)].writer.file]
       = <<"\n", "\n", "line", "\n", "line", "\n">>

\* The writes of log are chunks of one key with line numbers from 1 that
\* strictly increase, through whatever handles.
OneKeyAscending(log) ==
  /\ log # <<>>
  /\ \A i \in 1..Len(log) :
       /\ log[i].message.type = "Msg"
       /\ log[i].from = log[1].from
       /\ log[i].message.line_number >= 1
       /\ i > 1 => log[i].message.line_number > log[i - 1].message.line_number

C20_NoSharedFile ==
  \A i, j \in 1..Len(handles) :
    i # j => handles[i].writer.file # handles[j].writer.file

====
